---------------------------- MODULE Spec2Model ----------------------------
(***************************************************************************)
(* Model of app.py, the crypto futures signal dashboard.                   *)
(*                                                                         *)
(* One Streamlit server process runs the script once per browser session,  *)
(* each run in its own thread with its own st.session_state.  The value    *)
(* cache of st.cache_data (get_binance_klines) is shared by all sessions.  *)
(* A session's run is cut into steps at the points where it blocks: the    *)
(* upstream HTTP request of get_binance_klines and time.sleep.             *)
(*                                                                         *)
(* A DataFrame is modelled by its number of rows and by the columns of its *)
(* last row that the script reads (close, RSI, SMA_9, SMA_21); NaN is a    *)
(* value that makes every comparison false, as in Python.                  *)
(***************************************************************************)
EXTENDS Integers, Sequences, FiniteSets, TLC

(* ----------------------------- bounds --------------------------------- *)
\* number of entries of TOP_10_SYMBOLS that are configured in the model
NumSymbols == 2
\* modelled time span of a single-session run, in ticks of TickLen seconds
MaxTicks == 4

(* ------------------------- program constants -------------------------- *)
REFRESH_INTERVAL == 300

AllSymbols ==
  <<"BTCUSDT", "ETHUSDT", "SOLUSDT", "XRPUSDT", "DOGEUSDT",
    "BNBUSDT", "ADAUSDT", "AVAXUSDT", "LINKUSDT", "MATICUSDT">>

TOP_10_SYMBOLS ==
  SubSeq(AllSymbols, 1, IF NumSymbols < Len(AllSymbols) THEN NumSymbols ELSE Len(AllSymbols))

Symbols == {TOP_10_SYMBOLS[i] : i \in 1..Len(TOP_10_SYMBOLS)}

\* values of TIMEFRAME_MAP a session can select; "1h" is the selectbox default
TIMEFRAME_MAP == {"15m", "1h"}
DefaultTf == "1h"

\* browser sessions that can connect to the server
Sessions == {1, 2}

\* timeframes the user of a session selects: the first browser keeps the
\* default, the others select any
TfChoices(s) == IF s = 1 THEN {DefaultTf} ELSE TIMEFRAME_MAP

TickLen == REFRESH_INTERVAL \div 2

(* ------------------------------ values -------------------------------- *)
NaN == 0 - 1
Absent == "absent"          \* dict.get() of a missing key (None)
None == [n |-> 0 - 1, close |-> NaN, RSI |-> NaN, SMA_9 |-> NaN, SMA_21 |-> NaN]
EmptyDF == [n |-> 0, close |-> NaN, RSI |-> NaN, SMA_9 |-> NaN, SMA_21 |-> NaN]

\* Python comparisons: false as soon as an operand is NaN
Lt(a, b) == a # NaN /\ b # NaN /\ a < b
Gt(a, b) == a # NaN /\ b # NaN /\ a > b
isna(x) == x = NaN

Frame(n, close, rsi, sma9, sma21) ==
  [n |-> n, close |-> close, RSI |-> rsi, SMA_9 |-> sma9, SMA_21 |-> sma21]

(* --------------------------- core logic ------------------------------- *)
\* compute_indicators: None below 21 rows, else the frame with its
\* indicator columns (as pandas_ta appended them)
compute_indicators(df) ==
  IF df.n = 0 \/ df.n < 21 THEN None ELSE df

generate_signal_strict_le(df) ==
  IF df = None \/ df.n = 0 THEN "Error"
  ELSE IF isna(df.RSI) \/ isna(df.SMA_9) \/ isna(df.SMA_21) THEN "Not Available"
  ELSE IF (Lt(df.RSI, 30) \/ df.RSI = 30) /\ Gt(df.close, df.SMA_9) /\ Gt(df.SMA_9, df.SMA_21)
       THEN "STRONG BUY"
  ELSE IF (Lt(df.RSI, 40) \/ df.RSI = 40) /\ Gt(df.close, df.SMA_9) THEN "BUY"
  ELSE IF Gt(df.RSI, 70) \/ df.RSI = 70 THEN "OVERBOUGHT"
  ELSE "HOLD"

generate_signal(df) ==
  IF df = None \/ df.n = 0 THEN "Error"
  ELSE IF isna(df.RSI) \/ isna(df.SMA_9) \/ isna(df.SMA_21) THEN "Not Available"
  ELSE IF Lt(df.RSI, 30) /\ Gt(df.close, df.SMA_9) /\ Gt(df.SMA_9, df.SMA_21)
       THEN "STRONG BUY"
  ELSE IF Lt(df.RSI, 40) /\ Gt(df.close, df.SMA_9) THEN "BUY"
  ELSE IF Gt(df.RSI, 70) THEN "OVERBOUGHT"
  ELSE "HOLD"

(* ------------------------- environment inputs ------------------------- *)
\* what the exchange can answer to one klines request, when it answers:
\* 20 candles, or 21 candles whose last row carries the given indicators
UpstreamFrames ==
  { Frame(20, 110, 25, 105, NaN),
    Frame(21, 110, 25, 105, 100),
    Frame(21, 110, 35, 105, 107),
    Frame(21, 110, 50, 105, 100) }

\* snapshots the classifier is applied to as a pure function
RsiValues == {NaN, 25, 29, 30, 31, 39, 40, 41, 70, 71}
PriceValues == {NaN, 100, 110}
Sma9Values == {NaN, 100, 105}
Sma21Values == {NaN, 100, 105}

(* ------------------------------ state --------------------------------- *)
VARIABLES
  now,                  \* wall clock, seconds
  horizon,              \* last instant of the modelled run
  browsers,             \* sessions that connect during the run
  cache,                \* st.cache_data store of get_binance_klines
  lock,                 \* st.cache_data compute lock per key: holder or 0
  pc,                   \* per session: position of its script run
  selected_tf,          \* per session: selected timeframe
  last_signal,          \* per session: st.session_state.last_signal
  bot_started_notified, \* per session: st.session_state.bot_started_notified
  idx,                  \* per session: position of the for loop in TOP_10_SYMBOLS
  master_df_data,       \* per session: result records of the running pass
  has_critical_error,   \* per session
  wakeAt,               \* per session: end of time.sleep
  got,                  \* per session, symbol: frame the last get returned
  buySent,              \* per session: symbols notified in the running pass
  heartbeats,           \* per session: heartbeat calls in the running pass
  startedSent,          \* send_bot_started_notification calls of the process
  lastObs,              \* per session, symbol: signal of the latest observation
  webhookUp,            \* whether the Discord webhook takes the posts of this run
  fetches,              \* per session: upstream requests of the running pass
  signalAtStart,        \* per session: last_signal when the running pass began
  closes,               \* indicator input (pure-function specification)
  snap,                 \* classifier input (pure-function specification)
  signalOut             \* classifier output (pure-function specification)

vars ==
  <<now, horizon, browsers, cache, lock, pc, selected_tf, last_signal,
    bot_started_notified, idx, master_df_data, has_critical_error, wakeAt,
    got, buySent, heartbeats, startedSent, lastObs, webhookUp, fetches,
    signalAtStart, snap, signalOut, closes>>

sessionVars ==
  <<pc, selected_tf, last_signal, bot_started_notified, idx, master_df_data,
    has_critical_error, wakeAt, got, buySent, heartbeats, startedSent, lastObs,
    webhookUp, fetches, signalAtStart>>

Keys == Symbols \X TIMEFRAME_MAP
NoEntry == [df |-> None, expires |-> 0]
NoFrame == Frame(0 - 2, NaN, NaN, NaN, NaN)
NoSnap == Frame(0, NaN, NaN, NaN, NaN)

N == Len(TOP_10_SYMBOLS)
CurSymbol(s) == TOP_10_SYMBOLS[idx[s]]
CurKey(s) == <<CurSymbol(s), selected_tf[s]>>



(* ------------------------- transition tracker ------------------------- *)
BuySignals == {"BUY", "STRONG BUY"}

ShouldNotify_no_dedup(signal, prior) ==
  signal \in BuySignals

\* line 188: signal in ['BUY', 'STRONG BUY'] and last_signal.get(symbol) != signal
ShouldNotify(signal, prior) ==
  signal \in BuySignals /\ prior # signal

HeartbeatDue_always(critical) ==
  TRUE

\* line 213: if not has_critical_error
HeartbeatDue(critical) ==
  ~critical

MayCompute_unlocked(k) ==
  TRUE

\* st.cache_data computes a missing value under the key's compute lock
MayCompute(k) ==
  lock[k] = 0

Recorded_lost_on_failure(notify, delivered, signal, prior) ==
  IF notify /\ ~delivered THEN prior ELSE signal

Recorded_only_on_notify(notify, delivered, signal, prior) ==
  IF notify THEN signal ELSE prior

\* line 191: the tracker takes the signal, whatever the notification did
\* (send_buy_signal_notification swallows the failure of its post)
Recorded(notify, delivered, signal, prior) ==
  signal

StartedCalls_inverted(flag) ==
  IF flag THEN 1 ELSE 0

\* lines 164-165: send_bot_started_notification unless the session's flag is set
StartedCalls(flag) ==
  IF ~flag THEN 1 ELSE 0

Skips_only_empty(df, indicator_df) ==
  df.n = 0

\* lines 177-179 and 182: the symbol is skipped (continue)
Skips(df, indicator_df) ==
  df.n = 0 \/ indicator_df = None

NextPc_break(i, df) ==
  IF i = N \/ df.n = 0 THEN "render" ELSE "get"

\* the for loop goes on to the next symbol, and to line 194 after the last
NextPc(i, df) ==
  IF i = N THEN "render" ELSE "get"

IsCritical_any_missing(master) ==
  Len(master) < N

\* line 195: if not master_df_data
IsCritical(master) ==
  master = <<>>

Fresh_inclusive(k) ==
  cache[k] # NoEntry /\ now <= cache[k].expires

\* a stored entry is served until its expiry instant
Fresh(k) ==
  cache[k] # NoEntry /\ now < cache[k].expires

(* ----------------------------- initial state -------------------------- *)
InitSessions ==
  /\ pc = [s \in Sessions |-> "closed"]
  /\ selected_tf = [s \in Sessions |-> DefaultTf]
  /\ last_signal = [s \in Sessions |-> [y \in Symbols |-> Absent]]
  /\ bot_started_notified = [s \in Sessions |-> FALSE]
  /\ idx = [s \in Sessions |-> 1]
  /\ master_df_data = [s \in Sessions |-> <<>>]
  /\ has_critical_error = [s \in Sessions |-> FALSE]
  /\ wakeAt = [s \in Sessions |-> 0]
  /\ got = [s \in Sessions |-> [y \in Symbols |-> NoFrame]]
  /\ buySent = [s \in Sessions |-> {}]
  /\ heartbeats = [s \in Sessions |-> 0]
  /\ startedSent = 0
  /\ lastObs = [s \in Sessions |-> [y \in Symbols |-> Absent]]
  /\ fetches = [s \in Sessions |-> 0]
  /\ signalAtStart = [s \in Sessions |-> [y \in Symbols |-> Absent]]

\* the server starts with an empty cache; either one browser connects and
\* the run is followed for MaxTicks ticks, or every browser may connect and
\* the run is followed for one tick
Init ==
  /\ now = 0
  /\ \/ browsers = {1} /\ horizon = MaxTicks * TickLen
     \/ browsers = Sessions /\ horizon = TickLen
  /\ cache = [k \in Keys |-> NoEntry]
  /\ lock = [k \in Keys |-> 0]
  /\ InitSessions
  /\ webhookUp \in BOOLEAN
  /\ snap = NoSnap
  /\ signalOut = "none"
  /\ closes = <<>>

(* ------------------------------- actions ------------------------------ *)
\* lines 171-172: a pass starts
BeginPass(s) ==
  /\ master_df_data' = [master_df_data EXCEPT ![s] = <<>>]
  /\ has_critical_error' = [has_critical_error EXCEPT ![s] = FALSE]
  /\ idx' = [idx EXCEPT ![s] = 1]
  /\ buySent' = [buySent EXCEPT ![s] = {}]
  /\ heartbeats' = [heartbeats EXCEPT ![s] = 0]
  /\ fetches' = [fetches EXCEPT ![s] = 0]
  /\ signalAtStart' = [signalAtStart EXCEPT ![s] = last_signal[s]]
  /\ pc' = [pc EXCEPT ![s] = "get"]

\* lines 29-38, 158-172: a browser connects, the script runs from the top
\* with a fresh session state, sends the started notification and enters
\* the loop
Connect(s, tf) ==
  /\ s \in browsers
  /\ pc[s] = "closed"
  /\ selected_tf' = [selected_tf EXCEPT ![s] = tf]
  /\ startedSent' = startedSent + StartedCalls(bot_started_notified[s])
  /\ bot_started_notified' = [bot_started_notified EXCEPT ![s] = TRUE]
  /\ BeginPass(s)
  /\ UNCHANGED <<now, horizon, browsers, cache, lock, last_signal, wakeAt,
                 got, lastObs, webhookUp, snap, signalOut, closes>>

\* lines 177-192: the body of the for loop once get_binance_klines returned df
Body(s, df) ==
  LET sym == CurSymbol(s)
      indicator_df == compute_indicators(df)
      signal == generate_signal(indicator_df)
      notify == ShouldNotify(signal, last_signal[s][sym])
  IN /\ got' = [got EXCEPT ![s][sym] = df]
     /\ IF Skips(df, indicator_df)
          THEN UNCHANGED <<last_signal, master_df_data, buySent, lastObs>>
          ELSE /\ buySent' = [buySent EXCEPT ![s] =
                    IF notify THEN @ \cup {sym} ELSE @]
               \* lines 140-141: the post is taken by the webhook or fails
               \* with a RequestException, which is swallowed
               /\ last_signal' = [last_signal EXCEPT ![s][sym] =
                    Recorded(notify, webhookUp, signal, @)]
               /\ master_df_data' = [master_df_data EXCEPT ![s] =
                    Append(@, [Coin |-> sym, Price |-> indicator_df.close,
                               RSI |-> indicator_df.RSI, Signal |-> signal])]
               /\ lastObs' = [lastObs EXCEPT ![s][sym] = signal]
     /\ idx' = [idx EXCEPT ![s] = @ + 1]
     /\ pc' = [pc EXCEPT ![s] = NextPc(idx[s], df)]
     /\ UNCHANGED <<selected_tf, bot_started_notified, has_critical_error,
                    wakeAt, heartbeats, startedSent, signalAtStart, webhookUp>>

\* line 176 with a stored, unexpired value: returned without a request
CacheHit(s) ==
  /\ pc[s] = "get"
  /\ Fresh(CurKey(s))
  /\ Body(s, cache[CurKey(s)].df)
  /\ UNCHANGED <<now, horizon, browsers, cache, lock, fetches, snap, signalOut, closes>>

\* line 176 with no stored value: the function body starts under the
\* compute lock and issues the request of line 65
CacheMiss(s) ==
  /\ pc[s] = "get"
  /\ ~Fresh(CurKey(s))
  /\ MayCompute(CurKey(s))
  /\ lock' = [lock EXCEPT ![CurKey(s)] = s]
  /\ pc' = [pc EXCEPT ![s] = "fetching"]
  /\ fetches' = [fetches EXCEPT ![s] = @ + 1]
  /\ UNCHANGED <<now, horizon, browsers, cache, selected_tf, last_signal,
                 bot_started_notified, idx, master_df_data, has_critical_error,
                 wakeAt, got, buySent, heartbeats, startedSent, lastObs,
                 webhookUp, signalAtStart, snap, signalOut, closes>>

\* lines 65-80: the request ends; the function returns the frame or, on
\* HTTPError / RequestException, an empty DataFrame; st.cache_data stores
\* the returned value for ttl seconds and releases the lock
FetchReturn(s, df) ==
  /\ pc[s] = "fetching"
  /\ cache' = [cache EXCEPT ![CurKey(s)] =
                 [df |-> df, expires |-> now + REFRESH_INTERVAL]]
  /\ lock' = [lock EXCEPT ![CurKey(s)] = 0]
  /\ Body(s, df)
  /\ UNCHANGED <<now, horizon, browsers, fetches, snap, signalOut, closes>>

FetchOk(s) ==
  \E df \in UpstreamFrames : FetchReturn(s, df)

FetchFail(s) ==
  FetchReturn(s, EmptyDF)

\* lines 194-216: render, heartbeat, then time.sleep starts
Render(s) ==
  /\ pc[s] = "render"
  /\ LET critical == IsCritical(master_df_data[s])
     IN /\ has_critical_error' = [has_critical_error EXCEPT ![s] = critical]
        /\ heartbeats' = [heartbeats EXCEPT ![s] =
             IF HeartbeatDue(critical) THEN @ + 1 ELSE @]
  /\ wakeAt' = [wakeAt EXCEPT ![s] = now + REFRESH_INTERVAL]
  /\ pc' = [pc EXCEPT ![s] = "sleep"]
  /\ UNCHANGED <<now, horizon, browsers, cache, lock, selected_tf, last_signal,
                 bot_started_notified, idx, master_df_data, got, buySent,
                 startedSent, lastObs, webhookUp, fetches, signalAtStart,
                 snap, signalOut, closes>>

\* line 216 returns, the while loop starts the next pass
Wake(s) ==
  /\ pc[s] = "sleep"
  /\ now >= wakeAt[s]
  /\ BeginPass(s)
  /\ UNCHANGED <<now, horizon, browsers, cache, lock, selected_tf, last_signal,
                 bot_started_notified, wakeAt, got, startedSent, lastObs,
                 webhookUp, snap, signalOut, closes>>

\* time passes, in ticks longer than a pass: no session is inside a pass
\* when the clock moves
Tick ==
  /\ now + TickLen <= horizon
  /\ \A s \in Sessions : pc[s] \in {"closed", "sleep"}
  /\ now' = now + TickLen
  /\ UNCHANGED <<horizon, browsers, cache, lock, snap, signalOut, closes>>
  /\ UNCHANGED sessionVars

Next ==
  \/ \E s \in Sessions : \E tf \in TfChoices(s) : Connect(s, tf)
  \/ \E s \in Sessions : CacheHit(s)
  \/ \E s \in Sessions : CacheMiss(s)
  \/ \E s \in Sessions : FetchOk(s)
  \/ \E s \in Sessions : FetchFail(s)
  \/ \E s \in Sessions : Render(s)
  \/ \E s \in Sessions : Wake(s)
  \/ Tick

Spec == Init /\ [][Next]_vars

\* the script's own steps are taken when they can be; the answer to the
\* request of line 65 is the exchange's, and requests.get is given no
\* timeout, so nothing makes FetchOk or FetchFail happen
Fairness ==
  /\ \A s \in Sessions :
       /\ WF_vars(CacheHit(s))
       /\ WF_vars(CacheMiss(s))
       /\ WF_vars(Render(s))
       /\ WF_vars(Wake(s))
  /\ WF_vars(Tick)

SpecLive == Init /\ [][Next]_vars /\ Fairness

(* --------------- the classifier as a pure function -------------------- *)
Snapshots ==
  {None, EmptyDF} \cup
  { Frame(21, p, r, a, b) :
      p \in PriceValues, r \in RsiValues, a \in Sma9Values, b \in Sma21Values }

InitClassify ==
  /\ now = 0
  /\ horizon = 0
  /\ browsers = {}
  /\ cache = [k \in Keys |-> NoEntry]
  /\ lock = [k \in Keys |-> 0]
  /\ InitSessions
  /\ webhookUp = TRUE
  /\ snap \in Snapshots
  /\ signalOut = "none"
  /\ closes = <<>>

Classify ==
  /\ signalOut = "none"
  /\ signalOut' = generate_signal(snap)
  /\ UNCHANGED <<now, horizon, browsers, cache, lock, snap, closes>>
  /\ UNCHANGED sessionVars

NextClassify ==
  Classify

SpecClassify == InitClassify /\ [][NextClassify]_vars

(* ------------------- indicators of a close series --------------------- *)
\* The series fed to compute_indicators here have a constant difference
\* between consecutive closes; closes[i] is the close of the i-th candle.
StartValues == {90, 95, 100, 105, 110}
StepValues == {0 - 2, 0 - 1, 0, 1, 2}
LengthValues == {20, 21, 22}

Series(start, step, n) == [i \in 1..n |-> start + step * (i - 1)]

RECURSIVE SumSeq(_)
SumSeq(xs) == IF xs = <<>> THEN 0 ELSE xs[1] + SumSeq(Tail(xs))

sma_leading(c, length) ==
  IF Len(c) < length THEN NaN
  ELSE SumSeq(SubSeq(c, 1, length)) \div length

\* df.ta.sma: mean of the last `length` closes, NaN below `length` rows
\* (the division is exact for the series above, length being odd)
sma(c, length) ==
  IF Len(c) < length THEN NaN
  ELSE SumSeq(SubSeq(c, Len(c) - length + 1, Len(c))) \div length

Gains(c) ==
  [i \in 1..(Len(c) - 1) |-> IF c[i + 1] > c[i] THEN c[i + 1] - c[i] ELSE 0]

Losses(c) ==
  [i \in 1..(Len(c) - 1) |-> IF c[i + 1] < c[i] THEN c[i] - c[i + 1] ELSE 0]

\* Wilder's smoothing of the last value: a weighted mean of xs with positive
\* weights, NaN below `length` values. The gains and the losses of a series
\* with constant difference are constant sequences, whose every weighted
\* mean is that constant.
rma(xs, length) ==
  IF Len(xs) < length THEN NaN ELSE xs[Len(xs)]

\* df.ta.rsi: 100 * positive_avg / (positive_avg + |negative_avg|), NaN when
\* both averages are 0
rsi(c, length) ==
  LET positive_avg == rma(Gains(c), length)
      negative_avg == rma(Losses(c), length)
  IN IF isna(positive_avg) \/ isna(negative_avg) THEN NaN
     ELSE IF positive_avg + negative_avg = 0 THEN NaN
     ELSE (100 * positive_avg) \div (positive_avg + negative_avg)

\* the frame of a close series with its indicator columns
FrameOf(c) ==
  Frame(Len(c), c[Len(c)], rsi(c, 14), sma(c, 9), sma(c, 21))

InitIndicators ==
  /\ now = 0
  /\ horizon = 0
  /\ browsers = {}
  /\ cache = [k \in Keys |-> NoEntry]
  /\ lock = [k \in Keys |-> 0]
  /\ InitSessions
  /\ webhookUp = TRUE
  /\ snap = NoSnap
  /\ signalOut = "none"
  /\ \E start \in StartValues, step \in StepValues, n \in LengthValues :
       closes = Series(start, step, n)

\* lines 181-184: compute_indicators then generate_signal
Indicate ==
  /\ signalOut = "none"
  /\ snap' = compute_indicators(FrameOf(closes))
  /\ signalOut' = generate_signal(snap')
  /\ UNCHANGED <<now, horizon, browsers, cache, lock, closes>>
  /\ UNCHANGED sessionVars

NextIndicators ==
  Indicate

SpecIndicators == InitIndicators /\ [][NextIndicators]_vars

(* =============================== claims =============================== *)
\* the for loop of session s is past symbol y in the running pass
Processed(s, y) ==
  /\ pc[s] \in {"get", "fetching", "render", "sleep"}
  /\ \E i \in 1..N : TOP_10_SYMBOLS[i] = y /\ i < idx[s]

\* session s completed a pass and sleeps
PassDone(s) == pc[s] = "sleep"

\* the step runs lines 188-192 for one symbol of session s
ObserveStep(s) == Len(master_df_data'[s]) = Len(master_df_data[s]) + 1

HasRecord(s, y, sig) ==
  \E i \in 1..Len(master_df_data[s]) :
    master_df_data[s][i].Coin = y /\ master_df_data[s][i].Signal = sig

\* C1: a buy-signal notification is emitted for an observation exactly when
\* the observed signal is BUY or STRONG BUY and differs from the signal of
\* the preceding observation of the same instrument (none at first); no
\* other step emits one.
C1_NotifyIffNewBuy ==
  [][\A s \in Sessions :
       IF ObserveStep(s)
         THEN LET rec == master_df_data'[s][Len(master_df_data'[s])]
              IN /\ (rec.Coin \in buySent'[s]) <=>
                      (rec.Signal \in BuySignals /\ rec.Signal # lastObs[s][rec.Coin])
                 /\ buySent'[s] \ {rec.Coin} = buySent[s]
         ELSE buySent'[s] \subseteq buySent[s]]_vars

\* Buy, Buy: the second observation of BUY has emitted no notification
C1_Witness ==
  \E s \in Sessions : \E y \in Symbols :
    /\ HasRecord(s, y, "BUY")
    /\ y \notin buySent[s]

\* signal a pass produces for an instrument from the frame its get returned
ProducedSignal(df) ==
  IF df.n = 0 THEN "Error"
  ELSE IF df.n < 21 THEN "Not Available"
  ELSE generate_signal(df)

\* C2: after a pass completes, each instrument's recorded last signal equals
\* the signal produced for it in that pass, Error for a failed fetch and
\* Not Available for insufficient data.
C2_TrackerFollowsEveryOutcome ==
  \A s \in Sessions : PassDone(s) =>
    \A y \in Symbols : last_signal[s][y] = ProducedSignal(got[s][y])

\* C3: at the end of a pass the critical failure flag is set exactly when
\* the fetch failed for every configured instrument.
C3_CriticalIffAllFetchesFailed ==
  \A s \in Sessions : PassDone(s) =>
    (has_critical_error[s] <=> \A y \in Symbols : got[s][y].n = 0)

\* C4: the heartbeat is sent once in a pass without critical failure and not
\* at all in a pass with one, and only in the step that follows the last
\* instrument and starts the sleep.
C4_HeartbeatOncePerGoodPass ==
  [][\A s \in Sessions :
       /\ heartbeats'[s] # heartbeats[s] =>
            \/ pc[s] \in {"closed", "sleep"} /\ pc'[s] = "get" /\ heartbeats'[s] = 0
            \/ /\ pc[s] = "render" /\ idx[s] = N + 1 /\ pc'[s] = "sleep"
               /\ heartbeats'[s] = heartbeats[s] + 1
       /\ (pc[s] # "sleep" /\ pc'[s] = "sleep") =>
            heartbeats'[s] = IF has_critical_error'[s] THEN 0 ELSE 1]_vars

\* a pass in which one fetch failed and another gave a signal sent one heartbeat
C4_Witness ==
  \E s \in Sessions :
    /\ PassDone(s)
    /\ ~has_critical_error[s]
    /\ heartbeats[s] = 1
    /\ \E y \in Symbols : got[s][y].n = 0

\* C5: a failed fetch is never stored in the cache: no unexpired entry holds
\* the result of a failed fetch.
C5_FailureNotCached ==
  \A k \in Keys : ~(Fresh(k) /\ cache[k].df.n = 0)

Fetching(k) == {s \in Sessions : pc[s] = "fetching" /\ CurKey(s) = k}

\* C6: at most one upstream fetch is in flight per cache key, and sessions
\* that get the same key within the ttl of the first fetch receive the same
\* frame.
C6_SingleFlight ==
  /\ \A k \in Keys : Cardinality(Fetching(k)) <= 1
  /\ now < REFRESH_INTERVAL =>
       \A s1, s2 \in Sessions : \A y \in Symbols :
         (/\ selected_tf[s1] = selected_tf[s2]
          /\ got[s1][y] # NoFrame /\ got[s2][y] # NoFrame)
         => got[s1][y] = got[s2][y]

\* a session waits at the get of a key another session is fetching
C6_Witness ==
  \E s1, s2 \in Sessions :
    /\ s1 # s2
    /\ pc[s1] = "fetching"
    /\ pc[s2] = "get"
    /\ CurKey(s1) = CurKey(s2)

AllPresent(f) ==
  f.n = 21 /\ f.close # NaN /\ f.RSI # NaN /\ f.SMA_9 # NaN /\ f.SMA_21 # NaN

\* C7: with all four fields present the classifier returns the first match
\* of STRONG BUY (rsi < 30, price > sma9 > sma21), BUY (rsi < 40,
\* price > sma9), OVERBOUGHT (rsi > 70), HOLD; rsi of exactly 30, 40 or 70
\* falls through to the next rule.
C7_ClassifyPrecedence ==
  (signalOut # "none" /\ AllPresent(snap)) =>
    /\ signalOut =
         IF snap.RSI < 30 /\ snap.close > snap.SMA_9 /\ snap.SMA_9 > snap.SMA_21
           THEN "STRONG BUY"
         ELSE IF snap.RSI < 40 /\ snap.close > snap.SMA_9 THEN "BUY"
         ELSE IF snap.RSI > 70 THEN "OVERBOUGHT"
         ELSE "HOLD"
    /\ (snap.RSI = 30 /\ snap.close > snap.SMA_9 /\ snap.SMA_9 > snap.SMA_21)
         => signalOut = "BUY"
    /\ (snap.RSI = 40 /\ snap.close > snap.SMA_9) => signalOut = "HOLD"
    /\ snap.RSI = 70 => signalOut = "HOLD"

\* rsi = 30 with price > sma9 > sma21 has been classified BUY
C7_Witness ==
  /\ AllPresent(snap)
  /\ snap.RSI = 30 /\ snap.close > snap.SMA_9 /\ snap.SMA_9 > snap.SMA_21
  /\ signalOut = "BUY"

C9_ShortSeriesUnavailable ==
  \A s \in Sessions : \A y \in Symbols :
    Processed(s, y) =>
      /\ (0 < got[s][y].n /\ got[s][y].n < 21) =>
           /\ HasRecord(s, y, "Not Available")
           /\ last_signal[s][y] = "Not Available"
      /\ got[s][y].n >= 21 =>
           \E sig \in {"STRONG BUY", "BUY", "OVERBOUGHT", "HOLD"} : HasRecord(s, y, sig)

\* C10: an instrument observed as BUY, whose fetch then failed in the
\* following pass, and which is classified BUY in the pass after, is
\* notified again in that pass.
C10_ErrorResetsBaseline ==
  [][\A s \in Sessions :
       (/\ ObserveStep(s)
        /\ master_df_data'[s][Len(master_df_data'[s])].Signal = "BUY"
        /\ got[s][CurSymbol(s)].n = 0
        /\ lastObs[s][CurSymbol(s)] = "BUY")
       => CurSymbol(s) \in buySent'[s]]_vars

\* C11: under every combination of fetch outcomes, a fetch that never
\* returns included, every started pass eventually completes (reaches the
\* sleep that precedes the next pass).
C11_EveryPassCompletes ==
  \A s \in Sessions :
    (pc[s] \in {"get", "fetching", "render"}) ~> (pc[s] = "sleep")

LastRecord(s) == master_df_data'[s][Len(master_df_data'[s])]

\* C12: when the webhook does not take the posts, a buy notification that
\* fails is swallowed: the record is appended and the tracker takes the
\* notified signal in the same step, an observation of the same signal in a
\* following pass sends nothing, and the pass ends without critical failure
\* and with its heartbeat.
C12_DeliveryFailureSwallowed ==
  [][~webhookUp =>
      \A s \in Sessions :
        /\ buySent'[s] \ buySent[s] # {} => ObserveStep(s)
        /\ ObserveStep(s) =>
             /\ LastRecord(s).Coin \in buySent'[s] =>
                  last_signal'[s][LastRecord(s).Coin] = LastRecord(s).Signal
             /\ LastRecord(s).Signal = lastObs[s][LastRecord(s).Coin] =>
                  LastRecord(s).Coin \notin buySent'[s]
        /\ (pc[s] = "render" /\ pc'[s] = "sleep" /\ buySent[s] # {}) =>
             (~has_critical_error'[s] /\ heartbeats'[s] = 1)]_vars

\* with the webhook down, BUY was notified in an earlier pass and is observed
\* again without a notification, in a pass that ended with its heartbeat
C12_Witness ==
  /\ ~webhookUp
  /\ \E s \in Sessions : \E y \in Symbols :
       /\ PassDone(s)
       /\ HasRecord(s, y, "BUY")
       /\ y \notin buySent[s]
       /\ heartbeats[s] = 1

Connected == {s \in Sessions : pc[s] # "closed"}

\* C13 as stated: the started notification is sent once per process, however
\* many sessions run the script.
C13_StartedOncePerProcess ==
  /\ startedSent <= 1
  /\ Connected # {} => startedSent = 1

\* C13 amended: the started notification is sent once per session, when its
\* script starts and before any fetch, buy notification or heartbeat of that
\* session; later passes send none.
C13_StartedOncePerSession ==
  /\ startedSent = Cardinality(Connected)
  /\ \A s \in Sessions :
       /\ bot_started_notified[s] <=> s \in Connected
       /\ s \notin Connected =>
            /\ fetches[s] = 0 /\ buySent[s] = {} /\ heartbeats[s] = 0
            /\ \A y \in Symbols : got[s][y] = NoFrame

\* a session runs a later pass and the process has sent one started notification
C13_Witness ==
  /\ startedSent = 1
  /\ \E s \in Sessions : pc[s] = "get" /\ now >= REFRESH_INTERVAL /\ heartbeats[s] = 0
                         /\ \E y \in Symbols : got[s][y] # NoFrame

\* C14: a get within ttl of the fetch of the stored entry returns the stored
\* frame without a request, a get of a missing entry or at or after expiry
\* starts one request; an entry expires ttl = REFRESH_INTERVAL after it was
\* stored, and a pass makes at most one request per instrument.
C14_TtlHitOrFetch ==
  [][\A s \in Sessions :
       /\ (pc[s] = "get" /\ (pc'[s] # "get" \/ idx'[s] # idx[s])) =>
            LET e == cache[CurKey(s)]
            IN IF e # NoEntry /\ now < e.expires
                 THEN /\ cache' = cache
                      /\ got'[s][CurSymbol(s)] = e.df
                      /\ fetches'[s] = fetches[s]
                      /\ pc'[s] # "fetching"
                 ELSE /\ pc'[s] = "fetching"
                      /\ fetches'[s] = fetches[s] + 1
                      /\ idx'[s] = idx[s]
       /\ (pc[s] = "fetching" /\ pc'[s] # "fetching") =>
            /\ cache'[CurKey(s)].expires = now + REFRESH_INTERVAL
            /\ cache'[CurKey(s)].df = got'[s][CurSymbol(s)]
       /\ fetches'[s] <= (IF pc'[s] = "fetching" THEN idx'[s] ELSE idx'[s] - 1)]_vars

\* a session that connected half a ttl after the first symbol was fetched
\* got it without a request
C14_Witness ==
  \E s \in Sessions :
    /\ pc[s] = "get" /\ idx[s] > 1 /\ fetches[s] = 0
    /\ now = TickLen
    /\ cache[<<TOP_10_SYMBOLS[1], selected_tf[s]>>].expires = REFRESH_INTERVAL

\* C15: a pass never aborts early: the loop moves from each instrument to
\* the next in list order whatever the get returned, and the render that
\* ends the pass comes only after the last instrument.
C15_PassNeverAborts ==
  [][\A s \in Sessions :
       /\ idx'[s] # idx[s] =>
            \/ /\ idx[s] <= N /\ idx'[s] = idx[s] + 1
               /\ got'[s][CurSymbol(s)] # NoFrame
               /\ pc[s] \in {"get", "fetching"}
            \/ pc[s] \in {"closed", "sleep"} /\ pc'[s] = "get" /\ idx'[s] = 1
       /\ (pc'[s] = "render" /\ pc[s] # "render") => idx'[s] = N + 1
       /\ (pc[s] = "render" /\ pc'[s] # "render") =>
            (idx[s] = N + 1 /\ pc'[s] = "sleep")]_vars

\* a pass whose first fetch failed has a record of the last instrument
C15_Witness ==
  \E s \in Sessions :
    /\ PassDone(s)
    /\ got[s][TOP_10_SYMBOLS[1]].n = 0
    /\ \E sig \in BuySignals : HasRecord(s, TOP_10_SYMBOLS[N], sig)

LoopSignals == {"STRONG BUY", "BUY", "OVERBOUGHT", "HOLD", "Not Available"}

\* C17: the tracker and the result records of a pass hold only STRONG BUY,
\* BUY, OVERBOUGHT, HOLD or Not Available, never Error.
C17_ErrorNeverRecorded ==
  \A s \in Sessions :
    /\ \A y \in Symbols : last_signal[s][y] \in LoopSignals \cup {Absent}
    /\ \A i \in 1..Len(master_df_data[s]) : master_df_data[s][i].Signal \in LoopSignals

\* a pass ended in which one instrument had too few candles and has no
\* tracker entry while another was recorded
C17_Witness ==
  \E s \in Sessions : \E y \in Symbols :
    /\ PassDone(s)
    /\ 0 < got[s][y].n /\ got[s][y].n < 21
    /\ last_signal[s][y] = Absent
    /\ master_df_data[s] # <<>>

\* C18: a pass that ends with critical failure sent no buy notification and
\* left every instrument's recorded last signal as it was when the pass began.
C18_CriticalPassChangesNothing ==
  \A s \in Sessions :
    (PassDone(s) /\ has_critical_error[s]) =>
      /\ buySent[s] = {}
      /\ last_signal[s] = signalAtStart[s]

\* a later pass ended with critical failure and the tracker still holds a
\* signal of an earlier pass
C18_Witness ==
  \E s \in Sessions : \E y \in Symbols :
    /\ PassDone(s) /\ has_critical_error[s]
    /\ last_signal[s][y] \in BuySignals

Position(y) == CHOOSE i \in 1..N : TOP_10_SYMBOLS[i] = y

\* C19: the result list holds at most one record per instrument, in the
\* order of the configured list, and at the end of a pass the tracker's last
\* signal of each recorded instrument is the record's signal.
C19_RecordsOrderedAndTracked ==
  \A s \in Sessions :
    /\ \A i, j \in 1..Len(master_df_data[s]) :
         i < j => Position(master_df_data[s][i].Coin) < Position(master_df_data[s][j].Coin)
    /\ PassDone(s) =>
         \A i \in 1..Len(master_df_data[s]) :
           last_signal[s][master_df_data[s][i].Coin] = master_df_data[s][i].Signal

\* a pass ended with a record of every instrument
C19_Witness ==
  \E s \in Sessions : PassDone(s) /\ Len(master_df_data[s]) = N

Decreasing21 == Series(100, 0 - 1, 21)

\* C16 as stated: the 21 closes 100, 99, ..., 80 are classified STRONG BUY.
C16_DecreasingIsStrongBuy ==
  (closes = Decreasing21 /\ signalOut # "none") => signalOut = "STRONG BUY"

\* C16 amended: the 21 closes 100, 99, ..., 80 are classified HOLD: the last
\* close 80 is below SMA-9 = 84, which is below SMA-21 = 90, and RSI is 0.
C16_DecreasingIsHold ==
  (closes = Decreasing21 /\ signalOut # "none") =>
    /\ snap = Frame(21, 80, 0, 84, 90)
    /\ signalOut = "HOLD"

\* the decreasing series has been classified
C16_Witness ==
  closes = Decreasing21 /\ signalOut = "HOLD"

=============================================================================
